---------------------------- MODULE Spec2Model ----------------------------
(***************************************************************************)
(* RFM (Recency / Frequency / Monetary) segmentation pipeline of the       *)
(* e-commerce dashboard: src/src/rfm_analysis.py and its Online Retail     *)
(* copy src/src/real-data/test-modelisation.py.                            *)
(*                                                                         *)
(*   transactions --calculate_rfm_scores--> rfm (one row per customer)     *)
(*                --assign_rfm_scores-----> rfm + R/F/M scores             *)
(*                --segment_customers-----> rfm + segment                  *)
(*                                                                         *)
(* Tables are sequences of records (one record per row, one field per      *)
(* column).  Timestamps are integers in clock ticks, TicksPerDay ticks to  *)
(* the day.  Quantile edges are kept exactly, scaled by Q (pandas holds    *)
(* them as floats).                                                        *)
(***************************************************************************)
EXTENDS Integers, Sequences, FiniteSets, TLC

VARIABLES
    transactions,    \* the input transaction table
    reference_date,  \* <<>> when the caller passes None, <<t>> for a date t
    variant,         \* which module runs: "rfm_analysis" or "onlineretail"
    rfm,             \* the customer profile table
    report,          \* the per-segment report, <<>> until it is generated
    columns,         \* the columns the input file has
    error,           \* <<>>, or the exception that ended the run
    previous,        \* <<>>, or the results of the run before this one
    reco,            \* the recommendations on display, <<>> before any is
    transactions_clean,  \* the table clean_transactions has returned, <<>> before
    files,           \* the CSV files main() has written, <<>> before
    dashboard,       \* the tables the dashboard has read back, <<>> before
    given,           \* the table handed to the last call of assign_rfm_scores
                     \* or segment_customers, as its caller sees it afterwards
    pc               \* position in main(): raw, loaded, aggregated, scored,
                     \* segmented, reported, failed

vars == <<transactions, reference_date, variant, rfm, report, columns, error,
          previous, reco, files, dashboard, given, transactions_clean, pc>>

---------------------------------------------------------------------------
\* Bounds of the model.

\* Largest number of rows of a transaction table.
MaxRows == 2

\* Largest number of customers of a profile table given to the scorer.
MaxCust == 5

\* Clock ticks per day (timestamps carry a time of day).
TicksPerDay == 2

Variants == {"rfm_analysis", "onlineretail"}

CustomerIds == {1, 2}

OrderIds == {1, 2}

Ticks == 0..3

Amounts == {1, 2}

RecencyValues == 0..4

FrequencyValues == {1, 2}

MonetaryValues == {1, 2}

---------------------------------------------------------------------------
\* Helpers over sequences and sets.

\* The category code of a value that falls in no bin.
NaN == -1

Range(s) == {s[i] : i \in DOMAIN s}

SetMax(S) == CHOOSE x \in S : \A y \in S : y <= x

SetMin(S) == CHOOSE x \in S : \A y \in S : x <= y

RECURSIVE SumSeq(_)
SumSeq(s) == IF s = <<>> THEN 0 ELSE Head(s) + SumSeq(Tail(s))

\* The elements of a set of integers in increasing order.
RECURSIVE SortedSeqOf(_)
SortedSeqOf(S) ==
    IF S = {} THEN <<>>
    ELSE LET m == SetMin(S) IN <<m>> \o SortedSeqOf(S \ {m})

Column(df, name) == [i \in DOMAIN df |-> df[i][name]]

---------------------------------------------------------------------------
\* RFM metric aggregator.

\* Mutant of GroupKeys: groupby(sort=False), the keys in the order in which
\* they first appear in the table.
GroupKeysFirstSeen(df) ==
    LET col == Column(df, "customer_id")
        idx == SelectSeq([ i \in DOMAIN col |-> i ],
                         LAMBDA i : \A j \in 1..(i - 1) : col[j] # col[i])
    IN  [ k \in DOMAIN idx |-> col[idx[k]] ]

\* Mutant of GroupKeys: one key per row, keys not deduplicated.
GroupKeysPerRow(df) == Column(df, "customer_id")

\* groupby(...) keys: the distinct customer identifiers, in sorted order.
GroupKeys(df) == SortedSeqOf(Range(Column(df, "customer_id")))

\* The rows of one group, in table order.
Group(df, c) == SelectSeq(df, LAMBDA row : row.customer_id = c)

\* reference_date defaults to the maximum timestamp of the table.
\* Mutant of DefaultReference: a missing reference is the day after the
\* latest date of the table.
DefaultReferenceNextDay(df, ref) ==
    IF ref = <<>> THEN SetMax(Range(Column(df, "date"))) + TicksPerDay ELSE ref[1]

\* Mutant of DefaultReference: a missing reference is read off a clock that
\* has moved on by a day when the pipeline runs for the second time.
DefaultReferenceFromClock(df, ref) ==
    IF ref = <<>>
    THEN SetMax(Range(Column(df, "date")))
         + (IF previous = <<>> THEN 0 ELSE TicksPerDay)
    ELSE ref[1]

DefaultReference(df, ref) ==
    IF ref = <<>> THEN SetMax(Range(Column(df, "date"))) ELSE ref[1]

\* Mutant of Days: part days count as a whole day.
DaysRoundedUp(delta) == (delta + TicksPerDay - 1) \div TicksPerDay

\* Timedelta.days: whole days of a difference of timestamps (floor).
Days(delta) == delta \div TicksPerDay

\* agg 'count': the number of rows of the group.
AggCount(g) == Len(g)

\* agg 'nunique': the number of distinct identifiers of the group.
AggNunique(g) == Cardinality(Range(Column(g, "transaction_id")))

\* Mutant of AggMax: 'min', the first purchase.
AggMin(g) == SetMin(Range(Column(g, "date")))

AggMax(g) == SetMax(Range(Column(g, "date")))

\* 'sum' skips the cells that are NaN.
AggSum(g) == SumSeq(SelectSeq(Column(g, "total_amount"), LAMBDA v : v # NaN))

ProfileRow(df, c, ref, freq) ==
    LET g == Group(df, c) IN
    [ customer_id   |-> c,
      last_purchase |-> AggMax(g),
      frequency     |-> freq,
      monetary      |-> AggSum(g),
      recency       |-> Days(ref - AggMax(g)) ]

\* rfm_analysis.py: frequency is the 'count' of transaction_id.
calculate_rfm_scores(df, ref) ==
    LET keys == GroupKeys(df)
        r    == DefaultReference(df, ref)
    IN  [ i \in DOMAIN keys |->
            ProfileRow(df, keys[i], r, AggCount(Group(df, keys[i]))) ]

\* test-modelisation.py: frequency is the 'nunique' of InvoiceNo.
calculate_rfm_scores_onlineretail(df, ref) ==
    LET keys == GroupKeys(df)
        r    == DefaultReference(df, ref)
    IN  [ i \in DOMAIN keys |->
            ProfileRow(df, keys[i], r, AggNunique(Group(df, keys[i]))) ]

---------------------------------------------------------------------------
\* Quantile scorer.

\* Number of quantile bins (q=5); quantile edges are held multiplied by Q.
Q == 5

\* Mutant of RLabels: recency scored like the other two metrics.
RLabelsDirect == <<1, 2, 3, 4, 5>>

RLabels == <<5, 4, 3, 2, 1>>

\* Mutant of FMLabels: labels counted from 0.
FMLabelsFromZero == <<0, 1, 2, 3, 4>>

FMLabels == <<1, 2, 3, 4, 5>>

SortValues(x) == SortSeq(x, LAMBDA a, b : a < b)

\* Series.quantile(k/Q), linear interpolation, times Q.
QuantileEdge(sorted, k) ==
    LET n   == Len(sorted)
        pos == k * (n - 1)
        lo  == pos \div Q
        fr  == pos % Q
    IN  IF fr = 0 THEN Q * sorted[lo + 1]
        ELSE Q * sorted[lo + 1] + fr * (sorted[lo + 2] - sorted[lo + 1])

QuantileBins(x) ==
    LET sorted == SortValues(x) IN [ k \in 1..(Q + 1) |-> QuantileEdge(sorted, k - 1) ]

\* algos.unique on a non-decreasing sequence of edges.
RECURSIVE UniqueBins(_)
UniqueBins(bins) ==
    IF Len(bins) <= 1 THEN bins
    ELSE IF bins[1] = bins[2] THEN UniqueBins(Tail(bins))
    ELSE <<bins[1]>> \o UniqueBins(Tail(bins))

\* duplicates='drop': duplicate edges collapse.
DropDuplicates(bins) ==
    LET u == UniqueBins(bins) IN
    IF Len(u) < Len(bins) /\ Len(bins) # 2 THEN u ELSE bins

\* bins.searchsorted(v, side='left') with include_lowest.
BinId(bins, v) ==
    IF v = bins[1] THEN 1
    ELSE Cardinality({ j \in DOMAIN bins : bins[j] < v })

\* pd.qcut(x, q=5, labels=labels, duplicates='drop').  Raises ValueError
\* ("Bin labels must be one fewer than the number of bin edges") when
\* edges were dropped; a value outside every bin gets NaN.
qcut(x, labels) ==
    LET bins == DropDuplicates(QuantileBins(x)) IN
    IF Len(labels) # Len(bins) - 1
    THEN [ raised |-> TRUE, values |-> <<>> ]
    ELSE [ raised |-> FALSE,
           values |-> [ i \in DOMAIN x |->
                LET id == BinId(bins, Q * x[i]) IN
                IF id = 0 \/ id = Len(bins) THEN NaN ELSE labels[id] ] ]

\* Mutant of RankFirst: rank(ascending=False).
RankFirstDescending(x) ==
    [ i \in DOMAIN x |->
        1 + Cardinality({ j \in DOMAIN x : x[j] > x[i] })
          + Cardinality({ j \in DOMAIN x : j < i /\ x[j] = x[i] }) ]

\* Series.rank(method='first'): ties ranked in order of appearance.
RankFirst(x) ==
    [ i \in DOMAIN x |->
        1 + Cardinality({ j \in DOMAIN x : x[j] < x[i] })
          + Cardinality({ j \in DOMAIN x : j < i /\ x[j] = x[i] }) ]

RScoreCut(df) == qcut(Column(df, "recency"), RLabels)

FScoreCut(df) == qcut(RankFirst(Column(df, "frequency")), FMLabels)

MScoreCut(df) == qcut(RankFirst(Column(df, "monetary")), FMLabels)

HasNaN(s) == \E i \in DOMAIN s : s[i] = NaN

\* .astype(float).fillna(3).astype(int)
FillNa(s) == [ i \in DOMAIN s |-> IF s[i] = NaN THEN 3 ELSE s[i] ]

\* Mutant of Combine: the code lists the frequency digit first.
CombineFrequencyFirst(df, R, F, M) ==
    [ i \in DOMAIN df |->
        df[i] @@ [ R_score   |-> R[i],
                   F_score   |-> F[i],
                   M_score   |-> M[i],
                   RFM_score |-> ToString(F[i]) \o ToString(R[i]) \o ToString(M[i]),
                   RFM_total |-> R[i] + F[i] + M[i] ] ]

\* The score columns, RFM_score and RFM_total.
Combine(df, R, F, M) ==
    [ i \in DOMAIN df |->
        df[i] @@ [ R_score   |-> R[i],
                   F_score   |-> F[i],
                   M_score   |-> M[i],
                   RFM_score |-> ToString(R[i]) \o ToString(F[i]) \o ToString(M[i]),
                   RFM_total |-> R[i] + F[i] + M[i] ] ]

\* Mutant of ArgumentAfter: the function writes its columns into the table
\* it was given.
ArgumentAfterInPlace(rfm_df, df) == df

\* df = rfm_df.copy(): the columns are added to the copy df, and the table
\* rfm_df of the caller is after the call what it was before.
ArgumentAfter(rfm_df, df) == rfm_df

Raised == [ raised |-> TRUE, df |-> <<>> ]

Returned(df) == [ raised |-> FALSE, df |-> df ]

\* rfm_analysis.py: .astype(int) raises on a NaN score.
assign_rfm_scores(df) ==
    LET R == RScoreCut(df)
        F == FScoreCut(df)
        M == MScoreCut(df)
    IN  IF R.raised \/ F.raised \/ M.raised THEN Raised
        ELSE IF HasNaN(R.values) \/ HasNaN(F.values) \/ HasNaN(M.values) THEN Raised
        ELSE Returned(Combine(df, R.values, F.values, M.values))

\* test-modelisation.py: a NaN score becomes 3.
assign_rfm_scores_onlineretail(df) ==
    LET R == RScoreCut(df)
        F == FScoreCut(df)
        M == MScoreCut(df)
    IN  IF R.raised \/ F.raised \/ M.raised THEN Raised
        ELSE Returned(Combine(df, FillNa(R.values), FillNa(F.values), FillNa(M.values)))

---------------------------------------------------------------------------
\* Segment classifier.

\* Mutant of Condition: every branch also excludes the branches before it.
ConditionExclusive(k, r, f, m) ==
    CASE k = 1 -> r >= 4 /\ f >= 4 /\ m >= 4
      [] k = 2 -> f >= 4 /\ ~(r >= 4 /\ m >= 4)
      [] k = 3 -> r >= 4 /\ f <= 2
      [] k = 4 -> r <= 2 /\ f = 3 /\ m >= 3
      [] k = 5 -> r <= 2 /\ f <= 2
      [] k = 6 -> r = 3 /\ f <= 2
      [] OTHER -> TRUE

\* The condition of the k-th branch of get_segment's if/elif chain
\* (the final else is branch 7).
Condition(k, r, f, m) ==
    CASE k = 1 -> r >= 4 /\ f >= 4 /\ m >= 4
      [] k = 2 -> f >= 4
      [] k = 3 -> r >= 4 /\ f <= 2
      [] k = 4 -> r <= 2 /\ f >= 3 /\ m >= 3
      [] k = 5 -> r <= 2 /\ f <= 2
      [] k = 6 -> f <= 2
      [] OTHER -> TRUE

\* Mutant of BranchLabel: the 'Occasionnels' branch returns 'Endormis'.
BranchLabelNoOccasional(k) ==
    CASE k = 1 -> "Champions"
      [] k = 2 -> "Fidèles"
      [] k = 3 -> "Nouveaux prometteurs"
      [] k = 4 -> "À risque"
      [] k = 5 -> "Endormis"
      [] k = 6 -> "Endormis"
      [] OTHER -> "Moyens"

\* The value the k-th branch returns.
BranchLabel(k) ==
    CASE k = 1 -> "Champions"
      [] k = 2 -> "Fidèles"
      [] k = 3 -> "Nouveaux prometteurs"
      [] k = 4 -> "À risque"
      [] k = 5 -> "Endormis"
      [] k = 6 -> "Occasionnels"
      [] OTHER -> "Moyens"

\* Mutant of get_segment: the 'Fidèles' branch tested before 'Champions'.
get_segment_loyal_first(r, f, m) ==
    IF Condition(2, r, f, m) THEN BranchLabel(2)
    ELSE IF Condition(1, r, f, m) THEN BranchLabel(1)
    ELSE IF Condition(3, r, f, m) THEN BranchLabel(3)
    ELSE IF Condition(4, r, f, m) THEN BranchLabel(4)
    ELSE IF Condition(5, r, f, m) THEN BranchLabel(5)
    ELSE IF Condition(6, r, f, m) THEN BranchLabel(6)
    ELSE BranchLabel(7)

\* Mutant of get_segment: the 'À risque' branch tested before 'Fidèles'.
get_segment_risk_first(r, f, m) ==
    IF Condition(1, r, f, m) THEN BranchLabel(1)
    ELSE IF Condition(4, r, f, m) THEN BranchLabel(4)
    ELSE IF Condition(2, r, f, m) THEN BranchLabel(2)
    ELSE IF Condition(3, r, f, m) THEN BranchLabel(3)
    ELSE IF Condition(5, r, f, m) THEN BranchLabel(5)
    ELSE IF Condition(6, r, f, m) THEN BranchLabel(6)
    ELSE BranchLabel(7)

get_segment(r, f, m) ==
    IF Condition(1, r, f, m) THEN BranchLabel(1)
    ELSE IF Condition(2, r, f, m) THEN BranchLabel(2)
    ELSE IF Condition(3, r, f, m) THEN BranchLabel(3)
    ELSE IF Condition(4, r, f, m) THEN BranchLabel(4)
    ELSE IF Condition(5, r, f, m) THEN BranchLabel(5)
    ELSE IF Condition(6, r, f, m) THEN BranchLabel(6)
    ELSE BranchLabel(7)

\* Mutant of get_segment_onlineretail: 'À risque' asks for M >= 4.
get_segment_onlineretail_high_amount(r, f, m) ==
    IF r >= 4 /\ f >= 4 /\ m >= 4 THEN "Champions"
    ELSE IF f >= 4 THEN "Fidèles"
    ELSE IF r >= 4 /\ f <= 2 THEN "Nouveaux prometteurs"
    ELSE IF r <= 2 /\ f >= 3 /\ m >= 4 THEN "À risque"
    ELSE IF r <= 2 /\ f <= 2 THEN "Endormis"
    ELSE IF f <= 2 THEN "Occasionnels"
    ELSE "Moyens"

get_segment_onlineretail(r, f, m) ==
    IF r >= 4 /\ f >= 4 /\ m >= 4 THEN "Champions"
    ELSE IF f >= 4 THEN "Fidèles"
    ELSE IF r >= 4 /\ f <= 2 THEN "Nouveaux prometteurs"
    ELSE IF r <= 2 /\ f >= 3 /\ m >= 3 THEN "À risque"
    ELSE IF r <= 2 /\ f <= 2 THEN "Endormis"
    ELSE IF f <= 2 THEN "Occasionnels"
    ELSE "Moyens"

segment_customers(df) ==
    [ i \in DOMAIN df |->
        df[i] @@ [ segment |-> get_segment(df[i].R_score, df[i].F_score, df[i].M_score) ] ]

segment_customers_onlineretail(df) ==
    [ i \in DOMAIN df |->
        df[i] @@ [ segment |->
            get_segment_onlineretail(df[i].R_score, df[i].F_score, df[i].M_score) ] ]

---------------------------------------------------------------------------
\* The recommendations (get_segment_recommendations: the same dict in
\* rfm_analysis.py, test-modelisation.py and dashboard_streamlit.py).

\* Mutant of Entry: the entries carry no retention priority.
EntryWithoutPriority(description, action, retention_priority) ==
    [ description |-> description, action |-> action ]

\* One value of the dict.
Entry(description, action, retention_priority) ==
    [ description        |-> description,
      action             |-> action,
      retention_priority |-> retention_priority ]

recommendations ==
    [ label \in { "Champions", "Fidèles", "Nouveaux prometteurs", "À risque",
                  "Endormis", "Occasionnels", "Moyens" } |->
        CASE label = "Champions" ->
               Entry("Vos meilleurs clients",
                     "Récompenser avec un programme VIP, early access aux nouveautés",
                     "Haute")
          [] label = "Fidèles" ->
               Entry("Clients réguliers et engagés",
                     "Upselling, programme de fidélité, parrainage",
                     "Haute")
          [] label = "Nouveaux prometteurs" ->
               Entry("Nouveaux clients à fort potentiel",
                     "Onboarding personnalisé, offres de bienvenue",
                     "Moyenne")
          [] label = "À risque" ->
               Entry("Bons clients qui s'éloignent",
                     "Campagne de réactivation urgente, offres spéciales",
                     "Critique")
          [] label = "Endormis" ->
               Entry("Clients inactifs depuis longtemps",
                     "Campagne win-back, enquête satisfaction",
                     "Basse")
          [] label = "Occasionnels" ->
               Entry("Clients ponctuels",
                     "Incentives pour augmenter la fréquence",
                     "Moyenne")
          [] OTHER ->
               Entry("Clients standards",
                     "Personnalisation pour améliorer l'engagement",
                     "Moyenne") ]

\* recommendations.get(segment, {}): the empty dict is the empty function.
get_segment_recommendations(segment) ==
    IF segment \in DOMAIN recommendations THEN recommendations[segment] ELSE <<>>

---------------------------------------------------------------------------
\* The report (generate_rfm_report, the same code in both modules).
\* Monetary amounts are whole numbers of cents.  A value the report rounds
\* to two decimals is kept in hundredths and a percentage rounded to one
\* decimal in tenths, so a monetary value in hundredths of the currency
\* unit is its number of cents.

\* The keys of groupby('segment') in the sorted order groupby gives them
\* (code-point order: 'À' comes after the unaccented capitals).
SegmentOrder ==
    << "Champions", "Endormis", "Fidèles", "Moyens", "Nouveaux prometteurs",
       "Occasionnels", "À risque" >>

SegmentGroup(df, label) == SelectSeq(df, LAMBDA row : row.segment = label)

\* round(): num / den, den > 0, rounded to the nearest integer, a half to
\* the even neighbour.
RoundHalfEven(num, den) ==
    LET q == num \div den
        r == num % den
    IN  IF 2 * r < den THEN q
        ELSE IF 2 * r > den THEN q + 1
        ELSE IF q % 2 = 0 THEN q ELSE q + 1

\* Mutant of ReportCount: 'nunique' of the monetary column.
ReportCountDistinct(g) == Cardinality(Range(Column(g, "monetary")))

\* 'customer_id': 'count'
ReportCount(g) == Len(g)

\* 'mean' then round(2); scale is 100 for a column of whole numbers and 1
\* for a column of cents.
ReportMean(x, scale) == RoundHalfEven(scale * SumSeq(x), Len(x))

\* Mutant of ReportSum: the total rebuilt from the rounded mean.
ReportSumFromMean(x) == ReportMean(x, 1) * Len(x)

\* 'sum' then round(2), of a column of cents.
ReportSum(x) == RoundHalfEven(SumSeq(x), 1)

ReportRow(df, label) ==
    LET g == SegmentGroup(df, label)
    IN  [ segment        |-> label,
          nb_clients     |-> ReportCount(g),
          recency_moy    |-> ReportMean(Column(g, "recency"), 100),
          frequency_moy  |-> ReportMean(Column(g, "frequency"), 100),
          monetary_moy   |-> ReportMean(Column(g, "monetary"), 1),
          monetary_total |-> ReportSum(Column(g, "monetary")) ]

\* groupby('segment').agg(...): one row for each segment that has customers.
GroupBySegment(df) ==
    LET keys == SelectSeq(SegmentOrder, LAMBDA label : SegmentGroup(df, label) # <<>>)
    IN  [ k \in DOMAIN keys |-> ReportRow(df, keys[k]) ]

\* pct_clients and pct_revenue, rounded to one decimal.  The amounts that
\* reach the report are positive, so the total revenue is.
Percentages(rep) ==
    LET clients == SumSeq(Column(rep, "nb_clients"))
        revenue == SumSeq(Column(rep, "monetary_total"))
    IN  [ k \in DOMAIN rep |->
            rep[k] @@
            [ pct_clients |-> RoundHalfEven(1000 * rep[k].nb_clients, clients),
              pct_revenue |-> RoundHalfEven(1000 * rep[k].monetary_total, revenue) ] ]

\* A row put into a table already sorted by monetary_total, behind the rows
\* it does not have to precede.
InsertByTotal(sorted, row, ascending) ==
    LET before == { i \in DOMAIN sorted :
                      IF ascending
                      THEN sorted[i].monetary_total <= row.monetary_total
                      ELSE sorted[i].monetary_total >= row.monetary_total }
        k == Cardinality(before)
    IN  SubSeq(sorted, 1, k) \o <<row>> \o SubSeq(sorted, k + 1, Len(sorted))

\* The sort of sort_values on the few rows of a report: a stable insertion
\* sort, so rows of equal total keep the order groupby gave them.
RECURSIVE SortByTotal(_, _)
SortByTotal(rep, ascending) ==
    IF rep = <<>> THEN <<>>
    ELSE InsertByTotal(SortByTotal(SubSeq(rep, 1, Len(rep) - 1), ascending),
                       rep[Len(rep)], ascending)

\* Mutant of sort_values: ascending=True.
sort_values_ascending(rep) == SortByTotal(rep, TRUE)

\* sort_values('monetary_total', ascending=False)
sort_values(rep) == SortByTotal(rep, FALSE)

generate_rfm_report(df) == sort_values(Percentages(GroupBySegment(df)))

---------------------------------------------------------------------------
\* The pipeline of main(): one action per call.

\* The columns the aggregator needs, under the names of rfm_analysis.py
\* (InvoiceNo, CustomerID, InvoiceDate, TotalAmount in test-modelisation.py).
RequiredColumns == {"transaction_id", "customer_id", "date", "total_amount"}

TransactionRows ==
    [ transaction_id : OrderIds, customer_id : CustomerIds,
      date : Ticks, total_amount : Amounts ]

Tables == UNION { [ 1..n -> TransactionRows ] : n \in 1..MaxRows }

References == {<<>>} \cup { <<t>> : t \in Ticks }

Init ==
    /\ transactions \in Tables
    /\ reference_date \in References
    /\ variant \in Variants
    /\ rfm = <<>>
    /\ report = <<>>
    /\ columns = RequiredColumns
    /\ error = <<>>
    /\ previous = <<>>
    /\ reco = <<>>
    /\ given = <<>>
    /\ files = <<>>
    /\ dashboard = <<>>
    /\ transactions_clean = <<>>
    /\ pc = "loaded"

\* The exceptions of the model: their type and the columns their message
\* names.
ValueError(names) == [ kind |-> "ValueError", names |-> names ]

KeyError(names) == [ kind |-> "KeyError", names |-> names ]

\* The exception pandas raises in the aggregator when the table lacks
\* columns, <<>> when it raises none: df['date'] for the default reference,
\* then groupby('customer_id'), then agg, whose message lists every column
\* of its dict that does not exist.
AggregatorError(cols, ref) ==
    IF ref = <<>> /\ "date" \notin cols THEN KeyError({"date"})
    ELSE IF "customer_id" \notin cols THEN KeyError({"customer_id"})
    ELSE IF {"date", "transaction_id", "total_amount"} \ cols # {}
         THEN KeyError({"date", "transaction_id", "total_amount"} \ cols)
    ELSE <<>>

\* The latest date of a table without rows is NaT, and strftime of NaT
\* raises ValueError.
ReferenceIsNaT(df, ref) == ref = <<>> /\ df = <<>>

CalculateRfm ==
    /\ pc = "loaded"
    /\ LET err == AggregatorError(columns, reference_date)
       IN  IF err # <<>>
           THEN /\ error' = err
                /\ pc' = "failed"
                /\ rfm' = rfm
           ELSE IF variant = "rfm_analysis"
           THEN /\ rfm' = calculate_rfm_scores(transactions, reference_date)
                /\ pc' = "aggregated"
                /\ error' = error
           ELSE IF ReferenceIsNaT(transactions, reference_date)
           THEN /\ error' = ValueError({})
                /\ pc' = "failed"
                /\ rfm' = rfm
           ELSE /\ rfm' = calculate_rfm_scores_onlineretail(transactions,
                                                           reference_date)
                /\ pc' = "aggregated"
                /\ error' = error
    /\ UNCHANGED <<transactions, reference_date, variant, report, columns,
                   previous, reco, given,
                   files, dashboard, transactions_clean>>

AssignRfmScores ==
    /\ pc = "aggregated"
    /\ LET res == IF variant = "rfm_analysis"
                  THEN assign_rfm_scores(rfm)
                  ELSE assign_rfm_scores_onlineretail(rfm)
       IN  IF res.raised
           THEN pc' = "failed" /\ rfm' = rfm /\ given' = rfm
           ELSE /\ pc' = "scored"
                /\ rfm' = res.df
                /\ given' = ArgumentAfter(rfm, res.df)
    /\ UNCHANGED <<transactions, reference_date, variant, report, columns,
                   error, previous, reco,
                   files, dashboard, transactions_clean>>

SegmentCustomers ==
    /\ pc = "scored"
    /\ rfm' = IF variant = "rfm_analysis"
              THEN segment_customers(rfm)
              ELSE segment_customers_onlineretail(rfm)
    /\ given' = ArgumentAfter(rfm, rfm')
    /\ pc' = "segmented"
    /\ UNCHANGED <<transactions, reference_date, variant, report, columns,
                   error, previous, reco,
                   files, dashboard, transactions_clean>>

GenerateReport ==
    /\ pc = "segmented"
    /\ report' = generate_rfm_report(rfm)
    /\ pc' = "reported"
    /\ UNCHANGED <<transactions, reference_date, variant, rfm, columns, error,
                   previous, reco, given,
                   files, dashboard, transactions_clean>>

Next == CalculateRfm \/ AssignRfmScores \/ SegmentCustomers \/ GenerateReport

Spec == Init /\ [][Next]_vars

\* The input file as it is on disk.  The cells of the amount column are the
\* text of the file: empty, not a number, negative, zero, positive; the
\* cells of the other columns are given as parsed.
RawAmounts == {"", "abc", "-2", "0", "1"}

\* A row of a file: the cell of a column the file does not have is a
\* placeholder that nothing reads.
RawRows(cols) ==
    [ transaction_id : {1},
      customer_id    : IF "customer_id" \in cols THEN CustomerIds ELSE {1},
      date           : {0},
      total_amount   : IF "total_amount" \in cols THEN RawAmounts ELSE {"1"} ]

RawTables(cols) == UNION { [ 1..n -> RawRows(cols) ] : n \in 1..MaxRows }

\* The number read_csv and pd.to_numeric(errors='coerce') make of a cell:
\* NaN for an empty cell and for text that is not a number.
ToNumeric(cell) ==
    CASE cell = "-2" -> -2
      [] cell = "0"  -> 0
      [] cell = "1"  -> 1
      [] OTHER       -> NaN

ReadCsv(file) ==
    [ i \in DOMAIN file |-> [ file[i] EXCEPT !.total_amount = ToNumeric(@) ] ]

\* main() of rfm_analysis.py: read_csv(parse_dates=['date']) and nothing
\* else; read_csv raises ValueError when the date column is missing.
ReadTransactions(file, cols) ==
    IF "date" \notin cols
    THEN [ error |-> ValueError({"date"}), df |-> <<>> ]
    ELSE [ error |-> <<>>, df |-> ReadCsv(file) ]

\* load_onlineretail_data: read_csv(parse_dates=['InvoiceDate']), the
\* filter on CustomerID, the check of the required columns, then the
\* amounts made numeric and the rows without a positive amount dropped.
load_onlineretail_data(file, cols) ==
    IF "date" \notin cols
    THEN [ error |-> ValueError({"date"}), df |-> <<>> ]
    ELSE IF "customer_id" \notin cols
    THEN [ error |-> KeyError({"customer_id"}), df |-> <<>> ]
    ELSE IF RequiredColumns \ cols # {}
    THEN [ error |-> ValueError(RequiredColumns \ cols), df |-> <<>> ]
    ELSE [ error |-> <<>>,
           df    |-> SelectSeq(ReadCsv(file), LAMBDA row : row.total_amount > 0) ]

\* A file whose amount column holds text is read by rfm_analysis.py as a
\* column of strings, which the model does not follow: such files are given
\* to test-modelisation.py only.
InitLoad ==
    /\ variant \in Variants
    /\ columns \in SUBSET RequiredColumns
    /\ transactions \in RawTables(columns)
    /\ variant = "rfm_analysis" =>
          \A i \in DOMAIN transactions : transactions[i].total_amount # "abc"
    /\ reference_date = <<>>
    /\ rfm = <<>>
    /\ report = <<>>
    /\ error = <<>>
    /\ previous = <<>>
    /\ reco = <<>>
    /\ given = <<>>
    /\ files = <<>>
    /\ dashboard = <<>>
    /\ transactions_clean = <<>>
    /\ pc = "raw"

LoadData ==
    /\ pc = "raw"
    /\ LET res == IF variant = "rfm_analysis"
                  THEN ReadTransactions(transactions, columns)
                  ELSE load_onlineretail_data(transactions, columns)
       IN  IF res.error # <<>>
           THEN /\ error' = res.error
                /\ pc' = "failed"
                /\ transactions' = transactions
           ELSE /\ error' = error
                /\ pc' = "loaded"
                /\ transactions' = res.df
    /\ UNCHANGED <<reference_date, variant, rfm, report, columns, previous, reco, given,
                   files, dashboard, transactions_clean>>

NextLoad == LoadData \/ CalculateRfm

SpecLoad == InitLoad /\ [][NextLoad]_vars

\* The scenario of three customers.  Customer 1 has five orders that add up
\* to 1000, the last one 10 days before the reference date; customer 2 one
\* order of 10, two years (730 days) before it; customer 3 two orders that
\* add up to 50, the last one 30 days before it.  What the scenario leaves
\* open varies: the time of day of the last orders (oA, oB, oC ticks), how
\* far back the earlier orders lie (gapA, gapC days), how the amounts are
\* split (a for the first order of customer 1, c for the first order of
\* customer 3), the order of the rows, and the module that runs.
ScenarioReference == 2000 * TicksPerDay

ScenarioTable(oA, oB, oC, gapA, gapC, a, c) ==
    LET lastA == ScenarioReference - 10 * TicksPerDay - oA
        lastB == ScenarioReference - 730 * TicksPerDay - oB
        lastC == ScenarioReference - 30 * TicksPerDay - oC
        rest  == (1000 - a) \div 4
        row(id, cust, t, amount) ==
            [ transaction_id |-> id, customer_id |-> cust,
              date |-> t, total_amount |-> amount ]
    IN  << row(1, 1, lastA - 4 * gapA * TicksPerDay, a),
           row(2, 1, lastA - 3 * gapA * TicksPerDay, rest),
           row(3, 1, lastA - 2 * gapA * TicksPerDay, rest),
           row(4, 1, lastA - gapA * TicksPerDay, rest),
           row(5, 1, lastA, rest),
           row(6, 2, lastB, 10),
           row(7, 3, lastC - gapC * TicksPerDay, c),
           row(8, 3, lastC, 50 - c) >>

Reverse(s) == [ i \in DOMAIN s |-> s[Len(s) + 1 - i] ]

InitScenario ==
    /\ variant \in Variants
    /\ \E oA \in 0..(TicksPerDay - 1), oB \in 0..(TicksPerDay - 1),
          oC \in 0..(TicksPerDay - 1), gapA \in {1, 40}, gapC \in {0, 800},
          a \in {200, 996}, c \in {1, 25, 49} :
         \/ transactions = ScenarioTable(oA, oB, oC, gapA, gapC, a, c)
         \/ transactions = Reverse(ScenarioTable(oA, oB, oC, gapA, gapC, a, c))
    /\ reference_date = <<ScenarioReference>>
    /\ rfm = <<>>
    /\ report = <<>>
    /\ columns = RequiredColumns
    /\ error = <<>>
    /\ previous = <<>>
    /\ reco = <<>>
    /\ given = <<>>
    /\ files = <<>>
    /\ dashboard = <<>>
    /\ transactions_clean = <<>>
    /\ pc = "loaded"

SpecScenario == InitScenario /\ [][Next]_vars

---------------------------------------------------------------------------
\* The cleaning of etl_pipeline.py.

\* A row of the transactions file of the ETL: it is valid, in one of two
\* quantities, or has one defect: a quantity, unit price or amount that is
\* not positive, or no customer, product or date (NaN).
Defects(row) ==
    { c \in {"quantity", "unit_price", "total_amount"} : row[c] <= 0 }
    \cup { c \in {"customer_id", "product_id", "date"} : row[c] = NaN }

EtlRows ==
    { row \in [ transaction_id : OrderIds, quantity : {0, 1, 2},
                unit_price : {0, 1}, total_amount : {0, 1},
                customer_id : {NaN, 1}, product_id : {NaN, 1}, date : {NaN, 0} ] :
        Cardinality(Defects(row)) <= 1 }

EtlTables == UNION { [ 1..n -> EtlRows ] : n \in 1..MaxRows }

\* df.drop_duplicates(subset=['transaction_id']): of the rows that share a
\* transaction_id the first is kept.
drop_duplicates(df) ==
    LET idx == SelectSeq([ i \in DOMAIN df |-> i ],
                         LAMBDA i : \A j \in 1..(i - 1) :
                                       df[j].transaction_id # df[i].transaction_id)
    IN  [ k \in DOMAIN idx |-> df[idx[k]] ]

\* df[df[c] > 0]
Positive(df, c) == SelectSeq(df, LAMBDA row : row[c] > 0)

\* Mutant of dropna: subset=['customer_id'].
dropna_customer_only(df) == SelectSeq(df, LAMBDA row : row.customer_id # NaN)

\* df.dropna(subset=['customer_id', 'product_id', 'date'])
dropna(df) ==
    SelectSeq(df, LAMBDA row : /\ row.customer_id # NaN
                               /\ row.product_id # NaN
                               /\ row.date # NaN)

clean_transactions(df) ==
    dropna(Positive(Positive(Positive(drop_duplicates(df), "quantity"),
                             "unit_price"),
                    "total_amount"))

InitClean ==
    /\ transactions \in EtlTables
    /\ reference_date = <<>>
    /\ variant = "rfm_analysis"
    /\ rfm = <<>>
    /\ report = <<>>
    /\ columns = RequiredColumns
    /\ error = <<>>
    /\ previous = <<>>
    /\ reco = <<>>
    /\ given = <<>>
    /\ files = <<>>
    /\ dashboard = <<>>
    /\ transactions_clean = <<>>
    /\ pc = "etl"

\* main() of etl_pipeline.py: transactions_clean = clean_transactions(...)
CleanTransactions ==
    /\ pc = "etl"
    /\ transactions_clean' = clean_transactions(transactions)
    /\ pc' = "cleaned"
    /\ UNCHANGED <<transactions, reference_date, variant, rfm, report, columns,
                   error, previous, reco, given, files, dashboard>>

NextClean == CleanTransactions

SpecClean == InitClean /\ [][NextClean]_vars

---------------------------------------------------------------------------
\* The CSV files.  main() writes the profile table and the report with
\* to_csv, and the dashboard reads them back with pd.read_csv(path), no
\* dtype and no parse_dates given.

\* The columns whose cells are Python strings.
TextColumns == {"RFM_score", "segment"}

\* A timestamp is written as its date and time, which is not the text of a
\* number.
DateText(t) == "date " \o ToString(t)

\* The text to_csv writes for a cell.
CellText(c, v) ==
    IF c \in TextColumns THEN v
    ELSE IF c = "last_purchase" THEN DateText(v)
    ELSE ToString(v)

to_csv(df) ==
    [ i \in DOMAIN df |-> [ c \in DOMAIN df[i] |-> CellText(c, df[i][c]) ] ]

\* The numbers of the model and the texts read_csv takes for a number.
Numbers == (0 - 2000)..2000

NumberTexts == { ToString(n) : n \in Numbers }

ParseNumber(text) == CHOOSE n \in Numbers : ToString(n) = text

\* read_csv infers the type of a column from its cells: a column whose
\* cells all are the text of a number is a column of numbers, any other
\* column a column of strings.
read_csv(file) ==
    [ i \in DOMAIN file |->
        [ c \in DOMAIN file[i] |->
            IF \A j \in DOMAIN file : file[j][c] \in NumberTexts
            THEN [ dtype |-> "number", value |-> ParseNumber(file[i][c]) ]
            ELSE [ dtype |-> "text", value |-> file[i][c] ] ] ]

\* main(): rfm.to_csv(..., index=False) and report.to_csv(...), which
\* writes the index, the segment, as the first column.
SaveCsv ==
    /\ pc = "reported"
    /\ files' = [ analysis |-> to_csv(rfm), report |-> to_csv(report) ]
    /\ pc' = "saved"
    /\ UNCHANGED <<transactions, reference_date, variant, rfm, report, columns,
                   error, previous, reco, given, dashboard, transactions_clean>>

\* show_rfm_page reads the two files test-modelisation.py has written.
ReadBack ==
    /\ pc = "saved"
    /\ variant = "onlineretail"
    /\ dashboard' = [ rfm    |-> read_csv(files.analysis),
                      report |-> read_csv(files.report) ]
    /\ pc' = "read"
    /\ UNCHANGED <<transactions, reference_date, variant, rfm, report, columns,
                   error, previous, reco, given, files, transactions_clean>>

NextCsv == Next \/ SaveCsv \/ ReadBack

SpecCsv == Init /\ [][NextCsv]_vars

\* The pipeline run a second time on the same table and reference date,
\* in the same process: the table and report of the first run are still
\* there when the second run starts.
RunAgain ==
    /\ pc \in {"reported", "failed"}
    /\ previous = <<>>
    /\ previous' = [ rfm |-> rfm, report |-> report, pc |-> pc ]
    /\ pc' = "loaded"
    /\ UNCHANGED <<transactions, reference_date, variant, rfm, report, columns,
                   error, reco, given,
                   files, dashboard, transactions_clean>>

NextRerun == Next \/ RunAgain

SpecRerun == Init /\ [][NextRerun]_vars

---------------------------------------------------------------------------
\* The scorer and the classifier on profile tables given directly
\* (assign_rfm_scores and segment_customers are functions of the profile
\* table alone).

\* The timestamp from which the recencies of a given profile table count.
ScoreReference == SetMax(RecencyValues) * TicksPerDay

ProfileTable(n, r, f, m) ==
    [ i \in 1..n |->
        [ customer_id   |-> i,
          last_purchase |-> ScoreReference - r[i] * TicksPerDay,
          frequency     |-> f[i],
          monetary      |-> m[i],
          recency       |-> r[i] ] ]

\* The recency columns of n customers.  pd.qcut of the raw recencies does
\* not depend on the order of the rows, so they are listed in
\* non-decreasing order; the frequency and monetary columns, whose rank
\* (method='first') depends on the order of the rows, come in every order.
RecencyColumns(n) ==
    { r \in [ 1..n -> RecencyValues ] : \A i \in 1..(n - 1) : r[i] <= r[i + 1] }

InitScore ==
    /\ transactions = <<>>
    /\ reference_date = <<ScoreReference>>
    /\ variant \in Variants
    /\ \E n \in 1..MaxCust :
         \E r \in RecencyColumns(n),
            f \in [ 1..n -> FrequencyValues ],
            m \in [ 1..n -> MonetaryValues ] :
              rfm = ProfileTable(n, r, f, m)
    /\ report = <<>>
    /\ columns = RequiredColumns
    /\ error = <<>>
    /\ previous = <<>>
    /\ reco = <<>>
    /\ given = <<>>
    /\ files = <<>>
    /\ dashboard = <<>>
    /\ transactions_clean = <<>>
    /\ pc = "aggregated"

NextScore == AssignRfmScores \/ SegmentCustomers \/ GenerateReport

SpecScore == InitScore /\ [][NextScore]_vars

\* The classifier on one scored row, for every score triple.
Scores == 1..5

ScoredRow(r, f, m) ==
    [ customer_id   |-> 1,
      last_purchase |-> ScoreReference,
      frequency     |-> 1,
      monetary      |-> 1,
      recency       |-> 0,
      R_score       |-> r,
      F_score       |-> f,
      M_score       |-> m,
      RFM_score     |-> ToString(r) \o ToString(f) \o ToString(m),
      RFM_total     |-> r + f + m ]

InitSegment ==
    /\ transactions = <<>>
    /\ reference_date = <<ScoreReference>>
    /\ variant \in Variants
    /\ \E r \in Scores, f \in Scores, m \in Scores : rfm = <<ScoredRow(r, f, m)>>
    /\ report = <<>>
    /\ columns = RequiredColumns
    /\ error = <<>>
    /\ previous = <<>>
    /\ reco = <<>>
    /\ given = <<>>
    /\ files = <<>>
    /\ dashboard = <<>>
    /\ transactions_clean = <<>>
    /\ pc = "scored"

\* show_rfm_page: the recommendations of the segment selected among the
\* segments of the table are looked up and displayed.
ShowRecommendations ==
    /\ pc = "segmented"
    /\ \E selected_segment \in { rfm[i].segment : i \in DOMAIN rfm } :
          reco' = get_segment_recommendations(selected_segment)
    /\ pc' = "shown"
    /\ UNCHANGED <<transactions, reference_date, variant, rfm, report, columns,
                   error, previous, given,
                   files, dashboard, transactions_clean>>

NextSegment == SegmentCustomers \/ ShowRecommendations

SpecSegment == InitSegment /\ [][NextSegment]_vars

---------------------------------------------------------------------------
\* Properties.

Done == pc \in {"scored", "segmented", "reported"}

Segmented == pc \in {"segmented", "reported"}

Rows == DOMAIN rfm

\* The rule table of the specification, section 4.3.
RuleMatches(k, r, f, m) ==
    CASE k = 1 -> r >= 4 /\ f >= 4 /\ m >= 4
      [] k = 2 -> f >= 4
      [] k = 3 -> r >= 4 /\ f <= 2
      [] k = 4 -> r <= 2 /\ f >= 3 /\ m >= 3
      [] k = 5 -> r <= 2 /\ f <= 2
      [] k = 6 -> f <= 2
      [] OTHER -> TRUE

RuleSegment ==
    << "Champions", "Fidèles", "Nouveaux prometteurs", "À risque",
       "Endormis", "Occasionnels", "Moyens" >>

FirstRule(r, f, m) == SetMin({ k \in 1..7 : RuleMatches(k, r, f, m) })

\* C1: every segmented row carries the label of the first rule, in the
\* order 1..7 of the rule table, that its score triple (R, F, M) matches.
C1_FirstMatchingRule ==
    pc = "segmented" =>
        \A i \in Rows :
            rfm[i].segment =
                RuleSegment[FirstRule(rfm[i].R_score, rfm[i].F_score, rfm[i].M_score)]

\* A triple that matches rules 2, 4 and 7 and is labelled by rule 2.
C1_Witness ==
    /\ pc = "segmented"
    /\ \E i \in Rows :
         /\ rfm[i].R_score = 1 /\ rfm[i].F_score = 5 /\ rfm[i].M_score = 4
         /\ rfm[i].segment = "Fidèles"

CustomersOf(df) == { df[j].customer_id : j \in DOMAIN df }

ProfilesOf(c) == { i \in Rows : rfm[i].customer_id = c }

\* C2: once the aggregator has run, every customer of the transaction
\* table has exactly one profile row and every profile row is a customer of
\* the table, at every later step; every scored row carries its three
\* scores and every segmented row exactly one of the seven segment labels.
C2_OneProfileOneSegment ==
    pc # "loaded" =>
        /\ \A c \in CustomersOf(transactions) : Cardinality(ProfilesOf(c)) = 1
        /\ \A i \in Rows : rfm[i].customer_id \in CustomersOf(transactions)
        /\ Done => \A i \in Rows :
                      {"R_score", "F_score", "M_score"} \subseteq DOMAIN rfm[i]
        /\ Segmented =>
              \A i \in Rows : /\ "segment" \in DOMAIN rfm[i]
                              /\ rfm[i].segment \in Range(RuleSegment)
        /\ ~Segmented => \A i \in Rows : "segment" \notin DOMAIN rfm[i]

\* Two customers, both segmented.
C2_Witness ==
    /\ pc = "segmented"
    /\ Cardinality(CustomersOf(transactions)) = 2
    /\ Len(rfm) = 2

LatestTransaction(c) ==
    SetMax({ transactions[j].date : j \in { k \in DOMAIN transactions :
                                            transactions[k].customer_id = c } })

ReferenceUsed ==
    IF reference_date = <<>>
    THEN SetMax({ transactions[j].date : j \in DOMAIN transactions })
    ELSE reference_date[1]

\* The whole number of days in a span of t ticks: d with d days <= t < d+1 days.
WholeDays(t) ==
    CHOOSE d \in (0 - SetMax(Ticks) - 1)..SetMax(Ticks) :
        d * TicksPerDay <= t /\ t < (d + 1) * TicksPerDay

SpanOf(i) == ReferenceUsed - LatestTransaction(rfm[i].customer_id)

\* C3 as stated: for every reference date, recency is the whole number of
\* days from the customer's latest transaction to the reference date and
\* is non-negative.
C3_RecencyNonNegativeForEveryReference ==
    pc # "loaded" =>
        \A i \in Rows : rfm[i].recency = WholeDays(SpanOf(i)) /\ rfm[i].recency >= 0

\* C3 amended: for every reference date, recency is the whole number of
\* days from the customer's latest transaction to the reference date; it
\* is non-negative exactly when the reference date is not earlier than
\* that transaction.
C3_RecencyIsWholeDays ==
    pc # "loaded" =>
        \A i \in Rows :
            /\ rfm[i].recency = WholeDays(SpanOf(i))
            /\ rfm[i].recency >= 0 <=> SpanOf(i) >= 0

\* A reference date passed by the caller, more than a day and a part of a
\* day after a customer's latest transaction.
C3_Witness ==
    /\ pc = "aggregated"
    /\ reference_date # <<>>
    /\ \E i \in Rows : /\ SpanOf(i) > TicksPerDay
                       /\ SpanOf(i) % TicksPerDay # 0
                       /\ rfm[i].recency >= 1

OrdersOf(c) ==
    { transactions[j].transaction_id : j \in { k \in DOMAIN transactions :
                                               transactions[k].customer_id = c } }

\* C4: with either aggregator, frequency is the number of distinct order
\* identifiers among the customer's rows, and is at least 1.
C4_FrequencyIsDistinctOrders ==
    pc # "loaded" =>
        \A i \in Rows :
            /\ rfm[i].frequency = Cardinality(OrdersOf(rfm[i].customer_id))
            /\ rfm[i].frequency >= 1

\* C5: when assign_rfm_scores has returned, each of R_score, F_score and
\* M_score of every customer is an integer in 1..5.
C5_ScoresInRange ==
    Done => \A i \in Rows : /\ rfm[i].R_score \in 1..5
                            /\ rfm[i].F_score \in 1..5
                            /\ rfm[i].M_score \in 1..5

\* Five customers scored.
C5_Witness == pc = "scored" /\ Len(rfm) = 5

DistinctValues(name) == Cardinality(Range(Column(rfm, name)))

FewDistinctValues ==
    \E name \in {"recency", "frequency", "monetary"} : DistinctValues(name) < 5

\* C6: when some of the three distributions has fewer than 5 distinct
\* values, assign_rfm_scores does not raise and every customer has a score
\* in 1..5 for each metric.
C6_DegenerateBinningDoesNotRaise ==
    (FewDistinctValues /\ pc # "aggregated") =>
        /\ pc # "failed"
        /\ \A i \in Rows : /\ rfm[i].R_score \in 1..5
                           /\ rfm[i].F_score \in 1..5
                           /\ rfm[i].M_score \in 1..5

\* C7: for a population of at least 5 customers the binning never fails,
\* however many customers share a value of a metric.
C7_TiesNeverFailBinning == Len(rfm) >= 5 => pc # "failed"

\* C8: among the customers of a scored table, a strictly smaller recency
\* never has a lower R_score than a larger one, and every customer with
\* the smallest recency has the highest R_score of the table.
C8_RecencyInverted ==
    Done =>
        /\ \A i, j \in Rows :
              rfm[i].recency < rfm[j].recency => rfm[i].R_score >= rfm[j].R_score
        /\ \A i \in Rows :
              rfm[i].recency = SetMin(Range(Column(rfm, "recency")))
                  => rfm[i].R_score = SetMax(Range(Column(rfm, "R_score")))

\* Five customers, two of them sharing a recency, a more recent one with a
\* strictly higher R_score.
C8_Witness ==
    /\ pc = "scored"
    /\ Len(rfm) = 5
    /\ \E i, j \in Rows : i # j /\ rfm[i].recency = rfm[j].recency
    /\ \E i, j \in Rows :
          rfm[i].recency < rfm[j].recency /\ rfm[i].R_score > rfm[j].R_score

Direct(metric, score) ==
    /\ \A i, j \in Rows :
          rfm[i][metric] > rfm[j][metric] => rfm[i][score] >= rfm[j][score]
    /\ \E i \in Rows :
          /\ rfm[i][metric] = SetMax(Range(Column(rfm, metric)))
          /\ rfm[i][score] = SetMax(Range(Column(rfm, score)))

SourceOrder == <<1, 2, 3, 4, 5, 6, 7>>

Exchange(a, b) ==
    [ k \in DOMAIN SourceOrder |-> IF k = a THEN b ELSE IF k = b THEN a ELSE k ]

OtherOrders == { Exchange(a, b) : a \in 1..5, b \in 2..6 } \ {SourceOrder}

\* The label of the first branch, in the given order, whose condition holds.
EvaluateInOrder(order, r, f, m) ==
    BranchLabel(order[SetMin({ p \in DOMAIN order : Condition(order[p], r, f, m) })])

\* The triple satisfies the conditions of two branches (the final else apart).
Overlapping(r, f, m) == Cardinality({ k \in 1..6 : Condition(k, r, f, m) }) > 1

\* Some other order gives the triple a label other than the given one.
OrderSensitive(r, f, m, label) ==
    \E order \in OtherOrders : EvaluateInOrder(order, r, f, m) # label

\* C10: some score triple in 1..5 x 1..5 x 1..5 satisfies the conditions
\* of more than one branch and gets, with the branches taken in another
\* order, a label other than the one get_segment returns; and so does
\* every segmented row whose triple satisfies more than one condition.
C10_OrderIsSignificant ==
    /\ \E r \in Scores, f \in Scores, m \in Scores :
          Overlapping(r, f, m) /\ OrderSensitive(r, f, m, get_segment(r, f, m))
    /\ pc = "segmented" =>
          \A i \in Rows :
              Overlapping(rfm[i].R_score, rfm[i].F_score, rfm[i].M_score)
                  => OrderSensitive(rfm[i].R_score, rfm[i].F_score, rfm[i].M_score,
                                    rfm[i].segment)

\* A segmented row whose triple satisfies the conditions of branches 1
\* and 2 and whose label another order changes.
C10_Witness ==
    /\ pc = "segmented"
    /\ \E i \in Rows :
          /\ Condition(1, rfm[i].R_score, rfm[i].F_score, rfm[i].M_score)
          /\ Condition(2, rfm[i].R_score, rfm[i].F_score, rfm[i].M_score)
          /\ rfm[i].segment = "Champions"
          /\ EvaluateInOrder(Exchange(1, 2), rfm[i].R_score, rfm[i].F_score, rfm[i].M_score)
                = "Fidèles"

\* The seven segment labels.
SegmentLabels ==
    { "Champions", "Fidèles", "Nouveaux prometteurs", "À risque",
      "Endormis", "Occasionnels", "Moyens" }

\* C11: every segmented row carries one of the seven segment labels, and
\* each of the seven labels is the label both copies of get_segment give to
\* some score triple in 1..5 x 1..5 x 1..5.
C11_SevenLiveLabels ==
    /\ pc = "segmented" => \A i \in Rows : rfm[i].segment \in SegmentLabels
    /\ \A label \in SegmentLabels :
          \E r \in Scores, f \in Scores, m \in Scores :
              /\ get_segment(r, f, m) = label
              /\ get_segment_onlineretail(r, f, m) = label

\* A row labelled by the sixth branch, which only the triples with R = 3
\* and F <= 2 reach.
C11_Witness ==
    /\ pc = "segmented"
    /\ \E i \in Rows : /\ rfm[i].segment = "Occasionnels"
                       /\ rfm[i].R_score = 3
                       /\ rfm[i].F_score <= 2

\* C12: the nb_clients of the rows of the report add up to the number of
\* customer profiles the report was generated from.
C12_ReportCountsEveryCustomer ==
    pc = "reported" => SumSeq(Column(report, "nb_clients")) = Len(rfm)

\* A report of five customers in more than one segment, one of them a
\* segment of several customers.
C12_Witness ==
    /\ pc = "reported"
    /\ Len(rfm) = 5
    /\ Len(report) >= 2
    /\ \E k \in DOMAIN report : report[k].nb_clients >= 2

\* C13: the monetary_total of the rows of the report add up to the sum of
\* the monetary values of the customer profiles (amounts in cents).
C13_ReportKeepsRevenue ==
    pc = "reported" =>
        SumSeq(Column(report, "monetary_total")) = SumSeq(Column(rfm, "monetary"))

\* A report with a segment of several customers whose mean amount is not a
\* whole number of cents.
C13_Witness ==
    /\ pc = "reported"
    /\ \E k \in DOMAIN report :
          /\ report[k].nb_clients >= 2
          /\ report[k].monetary_total % report[k].nb_clients # 0

\* C20: the rows of the report come in non-increasing monetary_total.
C20_ReportSortedByRevenue ==
    pc = "reported" =>
        \A k \in 1..(Len(report) - 1) :
            report[k].monetary_total >= report[k + 1].monetary_total

\* A report whose rows the sort had to reorder: the rows are not in the
\* order of the segment names, and the totals are not all equal.
C20_Witness ==
    /\ pc = "reported"
    /\ \E k \in 1..(Len(report) - 1) :
          /\ report[k].monetary_total > report[k + 1].monetary_total
          /\ \E a, b \in DOMAIN SegmentOrder :
                /\ a > b
                /\ SegmentOrder[a] = report[k].segment
                /\ SegmentOrder[b] = report[k + 1].segment

\* The character pandas' astype(str) writes for a score.
Digit == <<"1", "2", "3", "4", "5">>

\* C17: RFM_score is the three digits of R_score, F_score and M_score in
\* that order, and RFM_total is their sum, between 3 and 15.
C17_CodeAndTotal ==
    Done => \A i \in Rows :
        /\ rfm[i].RFM_score =
              Digit[rfm[i].R_score] \o Digit[rfm[i].F_score] \o Digit[rfm[i].M_score]
        /\ rfm[i].RFM_total = rfm[i].R_score + rfm[i].F_score + rfm[i].M_score
        /\ rfm[i].RFM_total \in 3..15

\* A scored customer whose three scores differ, so that the order of the
\* digits shows.
C17_Witness ==
    /\ pc = "scored"
    /\ \E i \in Rows : /\ rfm[i].R_score # rfm[i].F_score
                       /\ rfm[i].F_score # rfm[i].M_score
                       /\ rfm[i].R_score # rfm[i].M_score

\* The number of customers that have the given score for the given metric.
Population(metric, score) == Cardinality({ i \in Rows : rfm[i][metric] = score })

EqualPopulation(metric) ==
    \A a \in Scores, b \in Scores :
        Population(metric, a) - Population(metric, b) <= 1

\* C18: with five customers or more, the numbers of customers that get
\* each of the scores 1..5 differ by at most one, for each of the three
\* metrics, ties included.
C18_EqualPopulationBuckets ==
    (Done /\ Len(rfm) >= 5) =>
        /\ EqualPopulation("R_score")
        /\ EqualPopulation("F_score")
        /\ EqualPopulation("M_score")

MissingColumns == RequiredColumns \ columns

\* C15: when the file lacks required columns, the run fails in the load or
\* in the aggregator, no profile is computed, and the error names the
\* columns that are missing, whichever they are.
C15_MissingColumnsNamed ==
    (MissingColumns # {} /\ pc \notin {"raw", "loaded"}) =>
        /\ pc = "failed"
        /\ rfm = <<>>
        /\ error # <<>>
        /\ error.names = MissingColumns

\* C16: every row handed to the aggregator has a numeric amount greater
\* than zero, in both entry points.
C16_AggregatorSeesPositiveAmounts ==
    (pc = "loaded" /\ MissingColumns = {}) =>
        \A i \in DOMAIN transactions :
            /\ transactions[i].total_amount # NaN
            /\ transactions[i].total_amount > 0

SegmentOf(c) == rfm[CHOOSE i \in Rows : rfm[i].customer_id = c].segment

\* C19: in the scenario of three customers, the first (five orders, 1000,
\* 10 days ago) is labelled Champions or Fidèles, the second (one order of
\* 10, two years ago) Endormis, and the third (two orders, 50, 30 days ago)
\* Occasionnels or Moyens.
C19_ScenarioLabels ==
    Segmented =>
        /\ SegmentOf(1) \in {"Champions", "Fidèles"}
        /\ SegmentOf(2) = "Endormis"
        /\ SegmentOf(3) \in {"Occasionnels", "Moyens"}

\* The scenario segmented, with its scores: 5-5-5, 1-1-1 and 3-3-3.
C19_Witness ==
    /\ pc = "segmented"
    /\ Len(transactions) = 8
    /\ [ i \in Rows |-> rfm[i].RFM_score ] = <<"555", "111", "333">>
    /\ [ i \in Rows |-> rfm[i].recency ] = <<10, 730, 30>>
    /\ [ i \in Rows |-> rfm[i].frequency ] = <<5, 1, 2>>
    /\ [ i \in Rows |-> rfm[i].monetary ] = <<1000, 10, 50>>

\* C21: when no reference date is passed, the aggregator counts from the
\* latest timestamp of the table: every recency is at least 0 and the
\* recency of some customer is 0.
C21_DefaultReferenceIsLatest ==
    (reference_date = <<>> /\ pc # "loaded") =>
        /\ \A i \in Rows : rfm[i].recency >= 0
        /\ \E i \in Rows : rfm[i].recency = 0
        /\ \A i \in Rows :
              rfm[i].recency =
                  WholeDays(SetMax(Range(Column(transactions, "date")))
                            - LatestTransaction(rfm[i].customer_id))

\* No reference date, two customers, the last order of one of them at
\* least a day before the last order of the table.
C21_Witness ==
    /\ reference_date = <<>>
    /\ pc = "aggregated"
    /\ Len(rfm) = 2
    /\ \E i \in Rows : rfm[i].recency > 0

PriorityLevels == {"Critique", "Haute", "Moyenne", "Basse"}

\* Labels that segment_customers never produces.
OtherLabels == {"", "champions", "At Risk", "Inconnu"}

CompleteEntry(entry) ==
    /\ DOMAIN entry = {"description", "action", "retention_priority"}
    /\ entry.description # ""
    /\ entry.action # ""
    /\ entry.retention_priority \in PriorityLevels

\* C22: get_segment_recommendations gives every label segment_customers
\* can produce, and so the label of every segmented customer, an entry with
\* a description, an action and one of the four retention priorities; any
\* other label gets the empty mapping; and looking up the recommendations
\* of a table changes nothing of the table, the report or the input.
C22_RecommendationsLookup ==
    /\ [](/\ pc \in {"segmented", "shown"} =>
                \A i \in Rows :
                    CompleteEntry(get_segment_recommendations(rfm[i].segment))
          /\ pc = "shown" => CompleteEntry(reco)
          /\ \A label \in SegmentLabels :
                CompleteEntry(get_segment_recommendations(label))
          /\ \A label \in OtherLabels :
                get_segment_recommendations(label) = <<>>)
    /\ [][pc' = "shown" =>
            /\ rfm' = rfm
            /\ report' = report
            /\ transactions' = transactions]_vars

\* The recommendations of an 'À risque' customer were looked up.
C22_Witness ==
    /\ pc = "shown"
    /\ \E i \in Rows : rfm[i].segment = "À risque"
    /\ reco.retention_priority = "Critique"
    /\ reco.description = "Bons clients qui s'éloignent"

ProfileColumns ==
    { "recency", "frequency", "monetary", "R_score", "F_score", "M_score",
      "RFM_score", "RFM_total" }

\* Every column the first table has is in the second, with the same value.
KeepsColumns(before, after) ==
    /\ Len(after) = Len(before)
    /\ \A i \in DOMAIN before :
          \A c \in DOMAIN before[i] :
              c \in DOMAIN after[i] /\ after[i][c] = before[i][c]

\* C23: segment_customers returns the scored table with the segment column
\* added and nothing else changed; generate_rfm_report leaves the table as
\* it is; and the table handed to assign_rfm_scores or to segment_customers
\* is after the call what it was before.
C23_ProfilesNotMutated ==
    [][ /\ (pc = "scored" /\ pc' = "segmented") =>
              /\ KeepsColumns(rfm, rfm')
              /\ \A i \in DOMAIN rfm :
                    /\ ProfileColumns \subseteq DOMAIN rfm[i]
                    /\ DOMAIN rfm'[i] = DOMAIN rfm[i] \cup {"segment"}
              /\ given' = rfm
        /\ (pc = "segmented" /\ pc' = "reported") => rfm' = rfm
        /\ (pc = "aggregated" /\ pc' \in {"scored", "failed"}) =>
              /\ given' = rfm
              /\ KeepsColumns(rfm, rfm')
      ]_vars

\* A report has been generated from two segmented customers; the table
\* handed to segment_customers still has no segment column.
C23_Witness ==
    /\ pc = "reported"
    /\ Len(rfm) = 2
    /\ Len(given) = 2
    /\ \A i \in Rows : /\ "segment" \in DOMAIN rfm[i]
                       /\ "segment" \notin DOMAIN given[i]
                       /\ "R_score" \in DOMAIN given[i]

\* The cell of a table in memory, with its type.
CellOf(c, v) ==
    [ dtype |-> IF c \in TextColumns THEN "text"
                ELSE IF c = "last_purchase" THEN "datetime"
                ELSE "number",
      value |-> v ]

SameCell(a, b) == a.dtype = b.dtype /\ a.value = b.value

\* The table read back has the rows and columns of the table written and,
\* the timestamp column apart, the same cell everywhere.
RoundTrip(written, back) ==
    /\ DOMAIN back = DOMAIN written
    /\ \A i \in DOMAIN written :
          /\ DOMAIN back[i] = DOMAIN written[i]
          /\ \A c \in DOMAIN written[i] \ {"last_purchase"} :
                SameCell(back[i][c], CellOf(c, written[i][c]))

\* C24: the profile table and the report written to CSV and read back have
\* the same value in every cell: the same number, the same segment label,
\* and for RFM_score the same string of three characters.
C24_CsvRoundTrip ==
    pc = "read" =>
        /\ RoundTrip(rfm, dashboard.rfm)
        /\ RoundTrip(report, dashboard.report)

\* The tables that have the rows of df in another order.
Permuted(df) ==
    { [ i \in DOMAIN df |-> df[p[i]] ] :
        p \in { q \in [ DOMAIN df -> DOMAIN df ] :
                  \A a, b \in DOMAIN df : q[a] = q[b] => a = b } }

\* The aggregator, the scorer and the classifier of the running module on a
\* table, with the reference date of the run.
PipelineOn(df) ==
    LET profiles == IF variant = "rfm_analysis"
                    THEN calculate_rfm_scores(df, reference_date)
                    ELSE calculate_rfm_scores_onlineretail(df, reference_date)
        scored   == IF variant = "rfm_analysis"
                    THEN assign_rfm_scores(profiles)
                    ELSE assign_rfm_scores_onlineretail(profiles)
    IN  IF scored.raised THEN Raised
        ELSE Returned(IF variant = "rfm_analysis"
                      THEN segment_customers(scored.df)
                      ELSE segment_customers_onlineretail(scored.df))

ScoresAndSegment(row) ==
    <<row.customer_id, row.R_score, row.F_score, row.M_score, row.segment>>

\* C25: the scores and the segment of each customer are those the pipeline
\* gives the customer on the table with its rows in any other order, and
\* the scorer fails on a table exactly when it fails on the table in any
\* other order.
C25_RowOrderIrrelevant ==
    /\ pc = "segmented" =>
          \A other \in Permuted(transactions) :
              LET result == PipelineOn(other)
              IN  /\ ~result.raised
                  /\ { ScoresAndSegment(rfm[i]) : i \in Rows }
                        = { ScoresAndSegment(result.df[j]) : j \in DOMAIN result.df }
    /\ pc = "failed" =>
          \A other \in Permuted(transactions) : PipelineOn(other).raised

\* Two customers segmented, with the same frequency and amount, the orders
\* of the customer with the larger identifier first in the table.
C25_Witness ==
    /\ pc = "segmented"
    /\ Len(transactions) = 2
    /\ transactions[1].customer_id > transactions[2].customer_id
    /\ transactions[1].total_amount = transactions[2].total_amount
    /\ \E i, j \in Rows : rfm[i].F_score # rfm[j].F_score

SameProfile(i, j) ==
    /\ rfm[i].recency = rfm[j].recency
    /\ rfm[i].frequency = rfm[j].frequency
    /\ rfm[i].monetary = rfm[j].monetary

\* C26: two customers of a run with the same recency, frequency and
\* monetary value have the same three scores, and the same segment once
\* they are segmented.
C26_EqualProfilesEqualScores ==
    Done => \A i \in Rows, j \in Rows :
        SameProfile(i, j) =>
            /\ rfm[i].R_score = rfm[j].R_score
            /\ rfm[i].F_score = rfm[j].F_score
            /\ rfm[i].M_score = rfm[j].M_score
            /\ Segmented => rfm[i].segment = rfm[j].segment

\* C27: a segmented customer is labelled 'À risque' exactly when R <= 2,
\* F = 3 and M >= 3; a customer with R <= 2 and F >= 4 is labelled
\* 'Fidèles', whatever M.
C27_AtRiskExactly ==
    pc \in {"segmented", "shown"} =>
        \A i \in Rows :
            /\ rfm[i].segment = "À risque" <=>
                  (rfm[i].R_score <= 2 /\ rfm[i].F_score = 3 /\ rfm[i].M_score >= 3)
            /\ (rfm[i].R_score <= 2 /\ rfm[i].F_score >= 4) =>
                  rfm[i].segment = "Fidèles"

\* A segmented customer with R <= 2, F >= 4 and M >= 3, who satisfies the
\* condition of the 'À risque' branch and is labelled 'Fidèles'.
C27_Witness ==
    /\ pc = "segmented"
    /\ \E i \in Rows : /\ rfm[i].R_score <= 2
                       /\ rfm[i].F_score >= 4
                       /\ rfm[i].M_score >= 3
                       /\ rfm[i].segment = "Fidèles"

\* C28: the two copies of get_segment give every score triple the same
\* label (a fact of the two functions alone, looked at once, before a
\* single customer is scored), and on a profile table that the assign_rfm_scores of
\* rfm_analysis.py scores without failing, the copy of test-modelisation.py
\* returns the same table and does not fail either.
C28_CopiesAgree ==
    /\ (pc = "aggregated" /\ Len(rfm) = 1) =>
          \A r \in Scores, f \in Scores, m \in Scores :
              get_segment(r, f, m) = get_segment_onlineretail(r, f, m)
    /\ pc = "scored" =>
          LET one == assign_rfm_scores(given)
              two == assign_rfm_scores_onlineretail(given)
          IN  ~one.raised => (~two.raised /\ two.df = one.df /\ rfm = one.df)
    /\ (pc = "failed" /\ variant = "onlineretail") => assign_rfm_scores(given).raised
    /\ Segmented =>
          \A i \in Rows :
              /\ rfm[i].segment =
                    get_segment(rfm[i].R_score, rfm[i].F_score, rfm[i].M_score)
              /\ rfm[i].segment =
                    get_segment_onlineretail(rfm[i].R_score, rfm[i].F_score,
                                             rfm[i].M_score)

\* Five customers scored by test-modelisation.py, on a table that
\* rfm_analysis.py scores too.
C28_Witness ==
    /\ pc = "scored"
    /\ variant = "onlineretail"
    /\ Len(rfm) = 5
    /\ ~assign_rfm_scores(given).raised

ValidRow(row) == Defects(row) = {}

\* C29: the table clean_transactions returns has no two rows with the same
\* transaction_id, only rows with positive quantity, unit price and amount
\* and with a customer, a product and a date; each of its rows is a row of
\* the input; and cleaning it again returns it unchanged.
C29_CleanOutput ==
    pc = "cleaned" =>
        /\ \A i, j \in DOMAIN transactions_clean :
              transactions_clean[i].transaction_id
                  = transactions_clean[j].transaction_id => i = j
        /\ \A i \in DOMAIN transactions_clean :
              /\ transactions_clean[i].quantity > 0
              /\ transactions_clean[i].unit_price > 0
              /\ transactions_clean[i].total_amount > 0
              /\ transactions_clean[i].customer_id # NaN
              /\ transactions_clean[i].product_id # NaN
              /\ transactions_clean[i].date # NaN
              /\ transactions_clean[i] \in Range(transactions)
        /\ clean_transactions(transactions_clean) = transactions_clean

\* Two rows in, one row out: a row without a date was removed.
C29_Witness ==
    /\ pc = "cleaned"
    /\ Len(transactions) = 2
    /\ Len(transactions_clean) = 1
    /\ \E i \in DOMAIN transactions : transactions[i].date = NaN

\* C30: when some row of the input with a given transaction_id is valid,
\* the output has a row with that transaction_id.
C30_ValidCopyKept ==
    pc = "cleaned" =>
        \A i \in DOMAIN transactions :
            ValidRow(transactions[i]) =>
                \E k \in DOMAIN transactions_clean :
                    transactions_clean[k].transaction_id
                        = transactions[i].transaction_id

=============================================================================
